---- MODULE Spec2Model ----
(***************************************************************************)
(* Model of sigpyproc/sig_calc.py: dep_from_p(DX).                         *)
(*                                                                         *)
(* dep_from_p is a sequential routine that blocks in input() at two        *)
(* places.  One action models everything the routine does between two      *)
(* blocking points: Call runs from entry to the first input() (or to the   *)
(* return / raise), AtmoInput and DensInput consume one line typed by the  *)
(* operator and run on to the next input() (or to the return / raise).     *)
(*                                                                         *)
(* Numbers are exact rationals: pressures and densities are <<n, d>>       *)
(* (d > 0, lowest terms); g and depth, whose digits do not fit a machine   *)
(* integer, are quotients of arbitrary-size naturals (BigRat).  The code's *)
(* doubles are these values rounded to 53 bits at each operation.  Array   *)
(* fields over (TIME, SAMPLE) are functions over Idx; a scalar operand is  *)
(* the constant array (numpy broadcasting).  An optional field/local is a  *)
(* sequence of length 0 (absent / unbound) or 1 (present).                 *)
(***************************************************************************)
EXTENDS Integers, Sequences, FiniteSets, TLC

\* ---- bounds -------------------------------------------------------------
MaxCalls   == 2      \* number of dep_from_p calls on the same dataset
MaxPrompts == 3      \* invalid answers are accepted while prompts < MaxPrompts
NSamp      == 2      \* number of (TIME, SAMPLE) cells

Idx == 1..NSamp

\* ---- exact rational arithmetic -------------------------------------------
RECURSIVE GCD(_, _)
GCD(a, b) == IF b = 0 THEN a ELSE GCD(b, a % b)

Abs(x) == IF x < 0 THEN -x ELSE x

Norm(n, d) ==
    LET s == IF d < 0 THEN -1 ELSE 1
        k == GCD(Abs(n), Abs(d))
    IN  <<(s * n) \div k, (s * d) \div k>>

R(n) == <<n, 1>>
RAdd(a, b) == Norm(a[1] * b[2] + b[1] * a[2], a[2] * b[2])
RSub(a, b) == Norm(a[1] * b[2] - b[1] * a[2], a[2] * b[2])

\* ---- arbitrary-size naturals: limbs base 10^4, least significant first ----
\* (no leading zero limb; zero is <<>>)
Base == 10000

RECURSIVE FromInt(_)
FromInt(n) == IF n = 0 THEN <<>> ELSE <<n % Base>> \o FromInt(n \div Base)

RECURSIVE BigAdd(_, _, _)
BigAdd(a, b, carry) ==
    IF a = <<>> /\ b = <<>> THEN FromInt(carry)
    ELSE LET x == IF a = <<>> THEN 0 ELSE Head(a)
             y == IF b = <<>> THEN 0 ELSE Head(b)
             t == x + y + carry
         IN  <<t % Base>> \o BigAdd(IF a = <<>> THEN <<>> ELSE Tail(a),
                                    IF b = <<>> THEN <<>> ELSE Tail(b),
                                    t \div Base)

RECURSIVE BigMulLimb(_, _, _)
BigMulLimb(a, k, carry) ==
    IF k = 0 THEN <<>>
    ELSE IF a = <<>> THEN FromInt(carry)
    ELSE LET t == Head(a) * k + carry
         IN  <<t % Base>> \o BigMulLimb(Tail(a), k, t \div Base)

BigShift(a) == IF a = <<>> THEN <<>> ELSE <<0>> \o a

RECURSIVE BigMul(_, _)
BigMul(a, b) ==
    IF a = <<>> \/ b = <<>> THEN <<>>
    ELSE BigAdd(BigMulLimb(a, Head(b), 0), BigShift(BigMul(a, Tail(b))), 0)

RECURSIVE BigLess(_, _)
BigLess(a, b) ==
    IF Len(a) # Len(b) THEN Len(a) < Len(b)
    ELSE IF a = <<>> THEN FALSE
    ELSE LET n == Len(a)
         IN  IF a[n] # b[n] THEN a[n] < b[n]
             ELSE BigLess(SubSeq(a, 1, n - 1), SubSeq(b, 1, n - 1))

\* ---- quotients of naturals with a sign (not reduced) ----------------------
BigRat(neg, n, d) == [neg |-> neg, n |-> n, d |-> d]
Dec(n, d) == BigRat(FALSE, FromInt(n), FromInt(d))        \* the literal n/d
ToBig(r) == BigRat(r[1] < 0, FromInt(Abs(r[1])), FromInt(r[2]))
BRMul(a, b) == BigRat(a.neg # b.neg, BigMul(a.n, b.n), BigMul(a.d, b.d))
BRDiv(a, b) == BigRat(a.neg # b.neg, BigMul(a.n, b.d), BigMul(a.d, b.n))
\* sum of two non-negative quotients
BRAddPos(a, b) ==
    BigRat(FALSE, BigAdd(BigMul(a.n, b.d), BigMul(b.n, a.d), 0), BigMul(a.d, b.d))
\* equal / smaller as numbers
BREq(a, b) ==
    /\ BigMul(a.n, b.d) = BigMul(b.n, a.d)
    /\ (a.n = <<>> \/ a.neg = b.neg)
BRLessPos(a, b) == BigLess(BigMul(a.n, b.d), BigMul(b.n, a.d))

\* ---- optional values ------------------------------------------------------
Absent == <<>>
Some(v) == <<v>>
Has(o) == o # <<>>
Val(o) == o[1]

\* ---- latitude field -------------------------------------------------------
\* kind "absent": the dataset has no lat (attribute access fails);
\* kind "none"  : lat holds None (the unset value);
\* kind "value" : lat holds deg degrees.
LatAbsent == [kind |-> "absent", deg |-> 0]
LatNone   == [kind |-> "none", deg |-> 0]
LatVal(d) == [kind |-> "value", deg |-> d]

\* sin(lat)^2 in quarters, for the latitudes of the model
SinSqQ(deg) ==
    CASE Abs(deg) = 0  -> 0
      [] Abs(deg) = 30 -> 1
      [] Abs(deg) = 45 -> 2
      [] Abs(deg) = 60 -> 3
      [] Abs(deg) = 90 -> 4

\* gsw.grav(lat, p) at p = 0 (height z = 0, so grav = gs):
\*   sin2 = sin(lat*deg2rad)**2
\*   gs   = 9.780327*(1.0 + (5.2792e-3 + (2.32e-5*sin2))*sin2)
\* as an exact quotient; lat = 60 gives 9.81917885999...
grav(deg) ==
    LET sin2  == Dec(SinSqQ(deg), 4)
        inner == BRAddPos(Dec(52792, 10000000), BRMul(Dec(232, 10000000), sin2))
    IN  BRMul(Dec(9780327, 1000000), BRAddPos(Dec(1, 1), BRMul(inner, sin2)))

\* ---- operator input -------------------------------------------------------
Inputs == {"a", "A", "c", "C", "x", ""}

\* str.upper()
Upper(s) ==
    CASE s = "a" -> "A"
      [] s = "c" -> "C"
      [] s = "x" -> "X"
      [] OTHER   -> s

Unbound == "<unbound>"

\* ---- exceptions -----------------------------------------------------------
NoErr             == "none"
MissingLat        == "Exception: No lat field in the dataset"
AbortAtmo         == "Exception: ABORTED BY USER (MISSING ATMOSPHERIC PRESSURE)"
AbortDensity      == "Exception: ABORTED BY USER (MISSING OCEAN DENSITY)"
AttributeError    == "AttributeError"
UnboundLocalError == "UnboundLocalError"

\* what the latitude check (line 65) raises: the explicit exception for
\* lat == None, the attribute error for a dataset without lat
LatCheckErrors == {MissingLat, AttributeError}

\* ---- the dataset ----------------------------------------------------------
\* The reference handed to dep_from_p; ret = DXRef means "the same object".
DXRef   == "DX"
NoValue == "no value"

PVals     == {<<10, 1>>, <<25, 2>>}                 \* altimeter pressure, db
OffVals   == {<<1, 10>>, <<1, 4>>}                  \* pressure_offset, db
AtmoVals  == {[i \in Idx |-> <<1, 20>>], [i \in Idx |-> <<i, 20>>]}
RhoVals   == {[i \in Idx |-> R(1025)], [i \in Idx |-> R(1024 + i)]}
LatVals   == {LatAbsent, LatNone, LatVal(0), LatVal(60)}

Datasets ==
    [Average_AltimeterPressure : [Idx -> PVals],
     pressure_offset           : OffVals,
     p_atmo                    : {Absent} \cup {Some(a) : a \in AtmoVals},
     lat                       : LatVals,
     rho_ocean                 : {Absent} \cup {Some(r) : r \in RhoVals},
     g                         : {Absent},
     depth                     : {Absent}]

\* ---- provenance note ------------------------------------------------------
\* note_str is the sequence of its parts; the numbers interpolated into the
\* text (offset, g) are not part of the model.
NoteHeader     == "Altimeter depth calculated from pressure: depth = p/(g*rho)"
NoteAtmoField  == "- Atmospheric pressure (*p_atmo* field subtracted)."
NoteAtmoNone   == "- !!! NO TIME_VARYING ATMOSPHERIC CORRECTION APPLIED !!!"
NoteGrav       == "- Using g (calculated using gsw.grav())"
NoteRhoField   == "- Using ocean density from the *rho_ocean* field."
NoteRhoFixed   == "- Using FIXED ocean density rho = 1027 kg m-3."

AppendNoteDropped(note, bullet) == note
AppendNote(note, bullet) == Append(note, bullet)

\* ---- the steps of dep_from_p ----------------------------------------------
\* A frame s holds the dataset, the locals and the control state of one call.
NewFrame(dx) ==
    [DX |-> dx, p_ocean |-> Absent, g |-> Absent, rho_ocean |-> Absent,
     note_str |-> <<NoteHeader>>,
     user_input_abort |-> Unbound, user_input_abort_dense |-> Unbound,
     pc |-> "running", err |-> NoErr, ret |-> NoValue, echo |-> Unbound,
     prompts |-> 0]

Raise(s, e) == [s EXCEPT !.pc = "raised", !.err = e]

\* p_abs = DX.Average_AltimeterPressure + DX.pressure_offset
PAbsNoOffset(dx) == dx.Average_AltimeterPressure
PAbs(dx) == [i \in Idx |-> RAdd(dx.Average_AltimeterPressure[i], dx.pressure_offset)]

\* p_ocean = (p_abs - DX.p_atmo).data
POceanCorrected(dx) == [i \in Idx |-> RSub(PAbs(dx)[i], Val(dx.p_atmo)[i])]

\* p_ocean = DX.Average_AltimeterPressure.data
POceanUncorrectedPAbs(dx) == PAbs(dx)
POceanUncorrected(dx) == dx.Average_AltimeterPressure

\* rho_ocean = 1027
RhoFixed == 1027
RhoDocstring == 1025
RhoFallbackDocstring == [i \in Idx |-> R(RhoDocstring)]
RhoFallback == [i \in Idx |-> R(RhoFixed)]

\* DX['g'] = ((), g, {...})
StoreG(dx, g) == [dx EXCEPT !.g = Some(g)]

\* depth = 1e4*p_ocean/g/rho_ocean
DepthOf(p_ocean, g, rho_ocean) ==
    [i \in Idx |-> BRDiv(BRDiv(BRMul(Dec(10000, 1), ToBig(p_ocean[i])), g),
                          ToBig(rho_ocean[i]))]

\* DX['depth'] = (('TIME', 'SAMPLE'), depth, {..., 'note': note_str})
StoreDepthInPlace(dx, depth, note) ==
    [dx EXCEPT !.depth = Some([data |-> depth, note |-> note]),
               !.Average_AltimeterPressure = PAbs(dx)]
StoreDepth(dx, depth, note) ==
    [dx EXCEPT !.depth = Some([data |-> depth, note |-> note])]

\* lines 96-102: compute and store depth, return DX
ReturnCopy(s) == [s EXCEPT !.pc = "returned", !.ret = "copy of DX"]
Return(s) == [s EXCEPT !.pc = "returned", !.ret = DXRef]

CalcDepth(s) ==
    LET depth == DepthOf(Val(s.p_ocean), Val(s.g), Val(s.rho_ocean))
    IN  Return([s EXCEPT !.DX = StoreDepth(s.DX, depth, s.note_str)])

\* lines 74-81: density from the field, or block in the first density input()
CalcDensity(s) ==
    IF Has(s.DX.rho_ocean)
    THEN CalcDepth([s EXCEPT !.rho_ocean = Some(Val(s.DX.rho_ocean)),
                             !.note_str = AppendNote(s.note_str, NoteRhoField)])
    ELSE [s EXCEPT !.pc = "dens_prompt", !.prompts = s.prompts + 1]

\* lines 64-72: latitude check, gravity, DX['g']
CalcGravity(s) ==
    IF s.DX.lat.kind = "absent" THEN Raise(s, AttributeError)
    ELSE IF s.DX.lat.kind = "none" THEN Raise(s, MissingLat)
    ELSE LET g == grav(s.DX.lat.deg)
         IN  CalcDensity([s EXCEPT !.g = Some(g),
                                   !.DX = StoreG(s.DX, g),
                                   !.note_str = AppendNote(s.note_str, NoteGrav)])

\* lines 33-48: p_abs, then p_ocean from p_atmo or block in the first input()
CalcOceanPressure(s) ==
    IF Has(s.DX.p_atmo)
    THEN CalcGravity([s EXCEPT !.p_ocean = Some(POceanCorrected(s.DX)),
                               !.note_str = AppendNote(s.note_str, NoteAtmoField)])
    ELSE [s EXCEPT !.pc = "atmo_prompt", !.prompts = s.prompts + 1]

\* lines 54-55
AtmoAbortAfterGravity(s) ==
    Raise([s EXCEPT !.DX = StoreG(s.DX, grav(s.DX.lat.deg))], AbortAtmo)
AtmoAbort(s) == Raise(s, AbortAtmo)

\* lines 56-60, then on to the gravity step
AtmoContinue(s) ==
    CalcGravity([s EXCEPT !.p_ocean = Some(POceanUncorrected(s.DX)),
                          !.note_str = AppendNote(s.note_str, NoteAtmoNone)])

\* lines 48-60 from a line read by input(): the while test, then the if
AtmoAnswer(s, line) ==
    LET u  == Upper(line)
        s1 == [s EXCEPT !.user_input_abort = u]
    IN  IF u \notin {"A", "C"}
        THEN [s1 EXCEPT !.echo = u, !.prompts = s.prompts + 1]
        ELSE IF u = "A" THEN AtmoAbort(s1) ELSE AtmoContinue(s1)

\* lines 88-89
DensAbortRollback(s) == Raise([s EXCEPT !.DX.g = Absent], AbortDensity)
DensAbort(s) == Raise(s, AbortDensity)

\* lines 90-93, then on to the depth step
DensContinue(s) ==
    CalcDepth([s EXCEPT !.rho_ocean = Some(RhoFallback),
                        !.note_str = AppendNote(s.note_str, NoteRhoFixed)])

\* lines 80-93 from a line read by input().  The echo at line 84 formats
\* user_input_abort, which is unbound when the p_atmo branch was taken.
DensAnswer(s, line) ==
    LET u  == Upper(line)
        s1 == [s EXCEPT !.user_input_abort_dense = u]
    IN  IF u \notin {"A", "C"}
        THEN IF s.user_input_abort = Unbound
             THEN Raise(s1, UnboundLocalError)
             ELSE [s1 EXCEPT !.echo = s.user_input_abort, !.prompts = s.prompts + 1]
        ELSE IF u = "A" THEN DensAbort(s1) ELSE DensContinue(s1)

\* ---- state ----------------------------------------------------------------
VARIABLES
    DX,                      \* the dataset
    p_ocean, g, rho_ocean,   \* locals of the running call
    note_str,
    user_input_abort, user_input_abort_dense,
    pc,                      \* "idle", "atmo_prompt", "dens_prompt", "returned", "raised"
    err,                     \* the exception raised by the call
    ret,                     \* the value returned by the call
    echo,                    \* argument of the last 'Input ("%s") not recognized.'
    prompts,                 \* input() calls made by the running call
    DX0,                     \* the dataset as it was when the running call began
    calls                    \* number of calls made so far

vars == <<DX, p_ocean, g, rho_ocean, note_str, user_input_abort,
          user_input_abort_dense, pc, err, ret, echo, prompts, DX0, calls>>

Frame ==
    [DX |-> DX, p_ocean |-> p_ocean, g |-> g, rho_ocean |-> rho_ocean,
     note_str |-> note_str,
     user_input_abort |-> user_input_abort,
     user_input_abort_dense |-> user_input_abort_dense,
     pc |-> pc, err |-> err, ret |-> ret, echo |-> echo, prompts |-> prompts]

Become(s) ==
    /\ DX' = s.DX
    /\ p_ocean' = s.p_ocean
    /\ g' = s.g
    /\ rho_ocean' = s.rho_ocean
    /\ note_str' = s.note_str
    /\ user_input_abort' = s.user_input_abort
    /\ user_input_abort_dense' = s.user_input_abort_dense
    /\ pc' = s.pc
    /\ err' = s.err
    /\ ret' = s.ret
    /\ echo' = s.echo
    /\ prompts' = s.prompts

Init ==
    /\ DX \in Datasets
    /\ DX0 = DX
    /\ calls = 0
    /\ p_ocean = Absent /\ g = Absent /\ rho_ocean = Absent
    /\ note_str = <<>>
    /\ user_input_abort = Unbound /\ user_input_abort_dense = Unbound
    /\ pc = "idle" /\ err = NoErr /\ ret = NoValue /\ echo = Unbound
    /\ prompts = 0

\* dep_from_p(DX) is called (again) on the dataset
Call ==
    /\ pc \in {"idle", "returned", "raised"}
    /\ calls < MaxCalls
    /\ calls' = calls + 1
    /\ DX0' = DX
    /\ Become(CalcOceanPressure(NewFrame(DX)))

\* the operator types a line at the atmospheric-pressure prompt
AtmoInput(line) ==
    /\ pc = "atmo_prompt"
    /\ Upper(line) \in {"A", "C"} \/ prompts < MaxPrompts
    /\ Become(AtmoAnswer(Frame, line))
    /\ UNCHANGED <<DX0, calls>>

\* the operator types a line at the density prompt
DensInput(line) ==
    /\ pc = "dens_prompt"
    /\ Upper(line) \in {"A", "C"} \/ prompts < MaxPrompts
    /\ Become(DensAnswer(Frame, line))
    /\ UNCHANGED <<DX0, calls>>

Next ==
    \/ Call
    \/ \E line \in Inputs : AtmoInput(line)
    \/ \E line \in Inputs : DensInput(line)

Spec == Init /\ [][Next]_vars

\* ---- properties -----------------------------------------------------------
AllPresent(dx) == Has(dx.p_atmo) /\ Has(dx.rho_ocean) /\ dx.lat.kind = "value"

\* 1e4 * p / g / rho, elementwise, written out from the dataset's fields
Hydrostatic(p, gv, rho) ==
    [i \in Idx |-> BRDiv(BRDiv(BRMul(Dec(10000, 1), ToBig(p[i])), gv), ToBig(rho[i]))]

\* two arrays hold the same numbers
SameNumbers(a, b) == \A i \in Idx : BREq(a[i], b[i])

\* Average_AltimeterPressure + pressure_offset - p_atmo, elementwise
GaugePressure(dx) ==
    [i \in Idx |-> RSub(RAdd(dx.Average_AltimeterPressure[i], dx.pressure_offset),
                        Val(dx.p_atmo)[i])]

\* C1: with p_atmo, rho_ocean and lat present, a call returns without any
\* input() request and stores
\* depth = 1e4*(Average_AltimeterPressure + pressure_offset - p_atmo)/grav(lat,0)/rho_ocean.
C1_DepthFromFields ==
    (pc # "idle" /\ AllPresent(DX)) =>
        /\ pc = "returned"
        /\ err = NoErr
        /\ prompts = 0
        /\ Has(DX.depth)
        /\ SameNumbers(Val(DX.depth).data,
             Hydrostatic(GaugePressure(DX), grav(DX.lat.deg), Val(DX.rho_ocean)))

C1_Witness ==
    /\ pc = "returned" /\ calls = 1 /\ AllPresent(DX) /\ prompts = 0
    /\ DX.lat = LatVal(60)
    /\ Has(DX.depth)
    \* 9.8191788 < g < 9.8191789
    /\ BRLessPos(Dec(98191788, 10000000), Val(DX.g))
    /\ BRLessPos(Val(DX.g), Dec(98191789, 10000000))

\* C2 (as claimed): with lat absent or None, every call ends by raising the
\* error of the latitude check, whatever p_atmo, rho_ocean and the operator's
\* answers are, and the dataset is as it was when the call began.
C2_AlwaysMissingLat ==
    (pc \in {"returned", "raised"} /\ DX0.lat.kind # "value") =>
        (pc = "raised" /\ err \in LatCheckErrors /\ DX = DX0)

\* C3: an A read at the atmospheric-pressure prompt raises the user-abort
\* error and leaves the dataset as it was at the call (no g, no depth added).
C3_AtmoAbortBeforeGravity ==
    [][(pc = "atmo_prompt" /\ user_input_abort' = "A") =>
          /\ pc' = "raised"
          /\ err' = AbortAtmo
          /\ DX' = DX0
          /\ (calls = 1 => ~Has(DX'.g) /\ ~Has(DX'.depth))]_vars

C3_Witness ==
    /\ pc = "raised" /\ err = AbortAtmo /\ user_input_abort = "A"
    /\ calls = 1 /\ DX.lat.kind = "value"
    /\ ~Has(DX.g) /\ ~Has(DX.depth)

\* C4: p_atmo missing, lat valid, operator answered C at the atmospheric
\* prompt: g is set to grav(lat,0) and, when the call returns, depth is
\* computed from the raw Average_AltimeterPressure (pressure_offset not added).
C4_ContinueUsesRawPressure ==
    (pc # "idle" /\ ~Has(DX.p_atmo) /\ DX.lat.kind = "value" /\ user_input_abort = "C") =>
        /\ Has(DX.g) /\ BREq(Val(DX.g), grav(DX.lat.deg))
        /\ p_ocean = Some(DX.Average_AltimeterPressure)
        /\ (pc = "returned" =>
              SameNumbers(Val(DX.depth).data,
                Hydrostatic(DX.Average_AltimeterPressure, grav(DX.lat.deg), Val(rho_ocean))))

C4_Witness ==
    /\ pc = "returned" /\ ~Has(DX.p_atmo) /\ user_input_abort = "C"
    /\ Has(DX.g) /\ Has(DX.depth)

\* C5: an A read at the density prompt raises the user-abort error after g
\* has been written; depth is not written by this call.
C5_DensAbortAfterGravity ==
    [][(pc = "dens_prompt" /\ user_input_abort_dense' = "A") =>
          /\ pc' = "raised"
          /\ err' = AbortDensity
          /\ Has(DX'.g) /\ BREq(Val(DX'.g), grav(DX.lat.deg))
          /\ DX' = [DX0 EXCEPT !.g = DX'.g]
          /\ (calls = 1 => ~Has(DX'.depth))]_vars

C5_Witness ==
    /\ pc = "raised" /\ err = AbortDensity /\ user_input_abort_dense = "A"
    /\ calls = 1 /\ ~Has(DX0.g) /\ Has(DX.g) /\ ~Has(DX.depth)

\* C6: a C read at the density prompt completes the call with
\* depth = 1e4 * p_ocean / g / 1027, p_ocean being the gauge pressure when
\* p_atmo is present and the raw altimeter pressure otherwise.
C6_ContinueUsesFixedDensity ==
    [][(pc = "dens_prompt" /\ user_input_abort_dense' = "C") =>
          /\ pc' = "returned"
          /\ Has(DX'.depth)
          /\ SameNumbers(Val(DX'.depth).data,
               Hydrostatic(IF Has(DX.p_atmo) THEN GaugePressure(DX)
                                             ELSE DX.Average_AltimeterPressure,
                           grav(DX.lat.deg),
                           [i \in Idx |-> <<1027, 1>>]))]_vars

C6_Witness ==
    /\ pc = "returned" /\ ~Has(DX.rho_ocean) /\ user_input_abort_dense = "C"
    /\ Has(DX.p_atmo) /\ Has(DX.depth)

\* C7 (as claimed): at either prompt an answer other than A or C is followed
\* by another prompt and never by an error reaching the caller.
C7_InvalidAnswerReprompts ==
    [][/\ (pc = "atmo_prompt" /\ user_input_abort' \notin {"A", "C"}) =>
             (pc' = "atmo_prompt" /\ err' = NoErr)
       /\ (pc = "dens_prompt" /\ user_input_abort_dense' \notin {"A", "C"}) =>
             (pc' = "dens_prompt" /\ err' = NoErr)]_vars

\* C8: a stored depth carries the note: header, then one bullet for the
\* atmospheric step, one for gravity, one for density, each bullet naming the
\* branch taken.
C8_NoteRecordsBranches ==
    Has(DX.depth) =>
        LET n == Val(DX.depth).note
        IN  /\ Len(n) = 4
            /\ n[1] = NoteHeader
            /\ n[2] = (IF Has(DX.p_atmo) THEN NoteAtmoField ELSE NoteAtmoNone)
            /\ n[3] = NoteGrav
            /\ n[4] = (IF Has(DX.rho_ocean) THEN NoteRhoField ELSE NoteRhoFixed)
            /\ (pc = "returned" =>
                  /\ (n[2] = NoteAtmoNone <=> user_input_abort = "C")
                  /\ (n[4] = NoteRhoFixed <=> user_input_abort_dense = "C"))

C8_Witness ==
    /\ pc = "returned" /\ ~Has(DX.p_atmo) /\ Has(DX.rho_ocean)
    /\ Has(DX.depth) /\ Len(Val(DX.depth).note) = 4

\* C9: no step of a call changes or removes Average_AltimeterPressure,
\* pressure_offset, p_atmo, lat or rho_ocean, or removes g or depth; a call
\* that returns returns the dataset it was given, with g and depth present.
C9_OnlyGAndDepthChange ==
    [][/\ DX'.Average_AltimeterPressure = DX.Average_AltimeterPressure
       /\ DX'.pressure_offset = DX.pressure_offset
       /\ DX'.p_atmo = DX.p_atmo
       /\ DX'.lat = DX.lat
       /\ DX'.rho_ocean = DX.rho_ocean
       /\ (Has(DX.g) => Has(DX'.g))
       /\ (Has(DX.depth) => Has(DX'.depth))
       /\ (pc' = "returned" => ret' = DXRef /\ Has(DX'.g) /\ Has(DX'.depth))]_vars

C9_Witness ==
    /\ pc = "returned" /\ ret = DXRef /\ Has(DX.g) /\ Has(DX.depth)
    /\ ~Has(DX0.g) /\ ~Has(DX0.depth)

\* C10: with p_atmo, rho_ocean and lat present, a second call on the same
\* dataset returns too and leaves g and depth equal to what the first call
\* stored.
C10_SecondCallSameResult ==
    (calls >= 2 /\ AllPresent(DX)) =>
        /\ pc = "returned"
        /\ err = NoErr
        /\ Has(DX0.g) /\ Has(DX0.depth)
        /\ Has(DX.g) /\ BREq(Val(DX.g), Val(DX0.g))
        /\ Has(DX.depth)
        /\ SameNumbers(Val(DX.depth).data, Val(DX0.depth).data)
        /\ Val(DX.depth).note = Val(DX0.depth).note

C10_Witness ==
    /\ calls = 2 /\ pc = "returned" /\ AllPresent(DX)
    /\ Has(DX0.depth) /\ SameNumbers(Val(DX.depth).data, Val(DX0.depth).data)

====
